---- MODULE Spec2Model ----
(***************************************************************************)
(* The analytics engine of the Telco churn dashboard                       *)
(* (src/churn_dashboard.py): the one-time load of the customer table, the  *)
(* filter evaluator, the KPI summary, the six chart builders and the two   *)
(* Dash callbacks update_dashboard and reset_filters.                      *)
(*                                                                         *)
(* Conventions.                                                            *)
(*  - A table (DataFrame) is a sequence of rows; a row is a record whose   *)
(*    DOMAIN is the set of its columns.                                    *)
(*  - A frame is [rows, ref]: ref = "df" when the Python object is the     *)
(*    module-level table itself, "tmp" when it is a fresh object (a copy   *)
(*    or the result of boolean indexing).                                  *)
(*  - A Python function that can touch the module-level table is an        *)
(*    operator that takes the table and returns [ret, df]: the returned    *)
(*    value and the table after the call.                                  *)
(*  - Money is kept in cents; a float is an exact fraction [n, d] in       *)
(*    lowest terms (the pools hold only values that binary floating point  *)
(*    represents exactly where a rounding tie can occur).                  *)
(***************************************************************************)
EXTENDS Integers, Sequences, FiniteSets, TLC

VARIABLES
    csv,        \* the rows of data/Telco-Customer-Churn.csv (read once)
    df,         \* the module-level table `df` (line 43)
    pc,         \* "import" before line 43 has run, "serving" afterwards
    argsort,    \* how this build's unstable sort orders equal keys
    sel,        \* the values of the six filter components in the page
    fresh,      \* TRUE when `out` answers the current `sel`
    out,        \* the last tuple returned by update_dashboard
    filtered_df,\* the local filtered_df of that call of update_dashboard
    called,     \* the chart builders that call ran
    first_out,  \* history: the tuple returned to the first request
    others      \* history: a request with other values than the initial
                \* ones has been answered

vars == <<csv, df, pc, argsort, sel, fresh, out, filtered_df, called, first_out, others>>

(***************************************************************************)
(* Bounds of the model.                                                    *)
(***************************************************************************)
MaxRows == 3         \* rows in the CSV
MaxActive == 2       \* filter components off their initial value at once

(***************************************************************************)
(* Small arithmetic helpers: fractions stand for Python floats.            *)
(***************************************************************************)
RECURSIVE Gcd(_, _)
Gcd(a, b) == IF b = 0 THEN a ELSE Gcd(b, a % b)

Frac(n, d) == LET g == Gcd(n, d) IN [n |-> n \div g, d |-> d \div g]

FracLess(a, b) == a.n * b.d < b.n * a.d

FracTimes(a, n, d) == Frac(a.n * n, a.d * d)

RECURSIVE SumSeq(_)
SumSeq(s) == IF s = <<>> THEN 0 ELSE Head(s) + SumSeq(Tail(s))

RECURSIVE Pow10(_)
Pow10(k) == IF k = 0 THEN 1 ELSE 10 * Pow10(k - 1)

Column(rows, col) == [i \in 1..Len(rows) |-> rows[i][col]]

(***************************************************************************)
(* The source file.  Customers is the pool the rows of the CSV are drawn   *)
(* from: a CSV holds up to MaxRows distinct customers, in the order of the *)
(* pool (C9 is where the other row orders are gone through).  tenure is in *)
(* months, MonthlyCharges in cents, TotalCharges the raw cell, character   *)
(* by character, as read_csv hands it to to_numeric.                       *)
(***************************************************************************)
Customer(id, g, dep, ph, pl, inet, con, pay, ten, mon, tot, ch) ==
    [customerID |-> id, gender |-> g, Dependents |-> dep, PhoneService |-> ph,
     PaperlessBilling |-> pl, InternetService |-> inet, Contract |-> con,
     PaymentMethod |-> pay, tenure |-> ten, MonthlyCharges |-> mon,
     TotalCharges |-> tot, Churn |-> ch]

Customers ==
    << Customer("c1", "Male", "No", "Yes", "Yes", "DSL", "Month-to-month",
               "Electronic check", 1, 2000, <<"2", "0">>, "Yes"),
      Customer("c2", "Female", "Yes", "Yes", "No", "Fiber optic", "One year",
               "Mailed check", 10, 5000, <<"5", "0", "0">>, "No"),
      Customer("c3", "Male", "No", "No", "Yes", "DSL", "Month-to-month",
               "Bank transfer (automatic)", 70, 3000,
               <<"2", "1", "0", "0">>, "No"),
      Customer("c4", "Female", "Yes", "Yes", "Yes", "No", "Two year",
               "Credit card (automatic)", 0, 2050, <<" ">>, " Yes"),
      Customer("c5", "Male", "No", "Yes", "No", "Fiber optic", "One year",
               "Electronic check", 101, 2525,
               <<"2", "5", "5", "0", ".", "2", "5">>, "Yes"),
      Customer("c6", "Female", "No", "No", "No", "DSL", "Month-to-month",
               "Mailed check", 70, 1000, <<>>, "yes") >>

RECURSIVE Pick(_, _)
Pick(S, i) ==
    IF i > Len(Customers) THEN <<>>
    ELSE (IF i \in S THEN <<Customers[i]>> ELSE <<>>) \o Pick(S, i + 1)

Csvs ==
    { Pick(S, 1) : S \in { T \in SUBSET DOMAIN Customers : Cardinality(T) <= MaxRows } }

(***************************************************************************)
(* pandas primitives used by the loader and the charts.                    *)
(***************************************************************************)
NaN == "NaN"

Digit == [c \in {"0", "1", "2", "3", "4", "5", "6", "7", "8", "9"} |->
            CASE c = "0" -> 0 [] c = "1" -> 1 [] c = "2" -> 2 [] c = "3" -> 3
              [] c = "4" -> 4 [] c = "5" -> 5 [] c = "6" -> 6 [] c = "7" -> 7
              [] c = "8" -> 8 [] c = "9" -> 9]

RECURSIVE DigitsValue(_)
DigitsValue(s) ==
    IF s = <<>> THEN 0
    ELSE 10 * DigitsValue(SubSeq(s, 1, Len(s) - 1)) + Digit[s[Len(s)]]

\* pd.to_numeric(cell, errors='coerce') on one cell: the number (in cents)
\* when the cell is digits with at most one decimal point and at most two
\* decimals, NaN otherwise.
to_numeric(cell) ==
    LET dots == { i \in DOMAIN cell : cell[i] = "." }
        wellFormed == /\ cell # <<>>
                      /\ \A i \in DOMAIN cell : cell[i] \in DOMAIN Digit \cup {"."}
                      /\ Cardinality(dots) <= 1
                      /\ \E i \in DOMAIN cell : cell[i] \in DOMAIN Digit
        p == IF dots = {} THEN Len(cell) + 1 ELSE CHOOSE i \in dots : TRUE
        whole == SubSeq(cell, 1, p - 1)
        decimals == SubSeq(cell, p + 1, Len(cell))
    IN  IF wellFormed /\ Len(decimals) <= 2
        THEN [nan |-> FALSE,
              val |-> 100 * DigitsValue(whole)
                      + DigitsValue(decimals) * Pow10(2 - Len(decimals))]
        ELSE [nan |-> TRUE, val |-> 0]

\* Series.fillna(v) on one cell.
fillna(x, v) == IF x.nan THEN v ELSE x.val

\* Fault: pd.cut without include_lowest, the lowest edge in no interval.
cut_without_lowest(x, bins, labels) ==
    LET hit == { i \in 1..Len(labels) : bins[i] < x /\ x <= bins[i + 1] }
    IN  IF hit = {} THEN NaN ELSE labels[CHOOSE i \in hit : TRUE]

\* pd.cut(x, bins, labels, include_lowest=True) on one value: intervals are
\* open on the left and closed on the right, the first one closed on both
\* sides; a value in no interval is NaN.
cut(x, bins, labels) ==
    LET hit == { i \in 1..Len(labels) :
                   \/ bins[i] < x /\ x <= bins[i + 1]
                   \/ i = 1 /\ x = bins[1] }
    IN  IF hit = {} THEN NaN ELSE labels[CHOOSE i \in hit : TRUE]

\* frame[col] = values: a new or overwritten column, one value per row.
assign(rows, col, values) ==
    [i \in 1..Len(rows) |->
        [c \in DOMAIN rows[i] \cup {col} |->
            IF c = col THEN values[i] ELSE rows[i][c]]]

(***************************************************************************)
(* load_and_prepare_data (lines 19-41).                                    *)
(***************************************************************************)
TenureBandBins == <<0, 3, 6, 12, 24, 48, 72>>
TenureBandLabels == <<"0-3", "3-6", "6-12", "12-24", "24-48", "48-72">>

TotalChargesOf(r) == fillna(to_numeric(r.TotalCharges), 0)
\* Fault: the churn field trimmed and compared without regard to case.
ChurnBinaryOf_folded(r) == IF r.Churn \in {"Yes", "yes", "YES", " Yes", "Yes "} THEN 1 ELSE 0

\* (df['Churn'] == 'Yes').astype(int)
ChurnBinaryOf(r) == IF r.Churn = "Yes" THEN 1 ELSE 0
TenureBandOf(r) == cut(r.tenure, TenureBandBins, TenureBandLabels)
SegmentOf(r) == r.Contract \o " | " \o r.InternetService

load_and_prepare_data(file) ==
    LET t1 == assign(file, "TotalCharges", [i \in DOMAIN file |-> TotalChargesOf(file[i])])
        t2 == assign(t1, "ChurnBinary", [i \in DOMAIN file |-> ChurnBinaryOf(file[i])])
        t3 == assign(t2, "TenureBand", [i \in DOMAIN file |-> TenureBandOf(file[i])])
    IN  assign(t3, "Segment", [i \in DOMAIN file |-> SegmentOf(file[i])])

(***************************************************************************)
(* Python string formatting.  A formatted string is the sequence of its    *)
(* characters, so that what is shown can be read back.                     *)
(***************************************************************************)
DigitChar == <<"0", "1", "2", "3", "4", "5", "6", "7", "8", "9">>

RECURSIVE IntStr(_)
IntStr(i) ==
    IF i < 10 THEN <<DigitChar[i + 1]>>
    ELSE IntStr(i \div 10) \o <<DigitChar[(i % 10) + 1]>>

RECURSIVE ZeroPad(_, _)
ZeroPad(s, w) == IF Len(s) >= w THEN s ELSE ZeroPad(<<"0">> \o s, w)

\* Fault: the digits beyond the k-th cut off.
RoundDown(x, k) == (x.n * Pow10(k)) \div x.d

\* The integer nearest to x * 10^k, a tie going to the even one: what
\* Python's fixed-point formatting does with the exact value of the float.
RoundHalfEven(x, k) ==
    LET num == x.n * Pow10(k)
        q == num \div x.d
        r == num % x.d
    IN  IF 2 * r > x.d \/ (2 * r = x.d /\ q % 2 = 1) THEN q + 1 ELSE q

\* f"{i:,}": the digits in groups of three.
RECURSIVE Grouped(_)
Grouped(i) ==
    IF i < 1000 THEN IntStr(i)
    ELSE Grouped(i \div 1000) \o <<",">> \o ZeroPad(IntStr(i % 1000), 3)

\* f"{x:.kf}"
FormatFixed(x, k) ==
    LET v == RoundHalfEven(x, k)
    IN  IF k = 0 THEN IntStr(v)
        ELSE IntStr(v \div Pow10(k)) \o <<".">> \o ZeroPad(IntStr(v % Pow10(k)), k)

\* f"{x:,.0f}"
FormatGrouped0(x) == Grouped(RoundHalfEven(x, 0))

(***************************************************************************)
(* Frames: object identity of the tables the callbacks handle.             *)
(***************************************************************************)
Global(table) == [rows |-> table, ref |-> "df"]

\* Fault: a second name for the same object instead of a copy.
copy_alias(frame) == frame

\* DataFrame.copy(): a fresh object with the same rows.
copy(frame) == [rows |-> frame.rows, ref |-> "tmp"]

\* frame[mask]: boolean indexing builds a new object with the rows whose
\* mask entry is True, in their order.
getitem(frame, mask) ==
    LET kept == SelectSeq([i \in 1..Len(frame.rows) |-> i], LAMBDA i : mask[i])
    IN  [rows |-> [k \in 1..Len(kept) |-> frame.rows[kept[k]]], ref |-> "tmp"]

\* frame[col] = ...: assignment in place; it lands in the module-level
\* table when the frame is that very object.
setitem(frame, col, values, table) ==
    LET rows == assign(frame.rows, col, values)
    IN  [ret |-> [rows |-> rows, ref |-> frame.ref],
         df |-> IF frame.ref = "df" THEN rows ELSE table]

(***************************************************************************)
(* filter_data (lines 881-902).  None is the value Dash passes for an      *)
(* empty number input.                                                     *)
(***************************************************************************)
None == -1

\* Fault: a value that no row holds taken as no filter at all.
filter_equal_lenient(frame, col, value) ==
    IF value # "All" /\ \E i \in DOMAIN frame.rows : frame.rows[i][col] = value
    THEN getitem(frame, [i \in DOMAIN frame.rows |-> frame.rows[i][col] = value])
    ELSE frame

\* Fault: the mask inverted, the rows that differ from the value are kept.
filter_equal_inverted(frame, col, value) ==
    IF value # "All" THEN getitem(frame, [i \in DOMAIN frame.rows |-> frame.rows[i][col] # value]) ELSE frame

\* if value != 'All': frame = frame[frame[col] == value]
filter_equal(frame, col, value) ==
    IF value # "All" THEN getitem(frame, [i \in DOMAIN frame.rows |-> frame.rows[i][col] = value]) ELSE frame

\* Fault: the lower tenure bound taken as exclusive.
filter_tenure_exclusive(frame, tenure_min, tenure_max) ==
    IF tenure_min # None /\ tenure_max # None
    THEN getitem(frame, [i \in DOMAIN frame.rows |-> frame.rows[i].tenure > tenure_min /\ frame.rows[i].tenure <= tenure_max])
    ELSE frame

\* Lines 898-900: the tenure range, applied when both bounds are given.
filter_tenure(frame, tenure_min, tenure_max) ==
    IF tenure_min # None /\ tenure_max # None
    THEN getitem(frame, [i \in DOMAIN frame.rows |-> frame.rows[i].tenure >= tenure_min /\ frame.rows[i].tenure <= tenure_max])
    ELSE frame

filtered_frame(table, gender_filter, paperless_filter, phone_filter, dependents_filter, tenure_min, tenure_max) ==
    filter_tenure(
        filter_equal(
            filter_equal(
                filter_equal(
                    filter_equal(copy(Global(table)), "gender", gender_filter),
                    "PaperlessBilling", paperless_filter),
                "PhoneService", phone_filter),
            "Dependents", dependents_filter),
        tenure_min, tenure_max)

\* Fault: the filtered rows written back to the module-level table.
filter_data_inplace(table, gender_filter, paperless_filter, phone_filter, dependents_filter, tenure_min, tenure_max) ==
    [ret |-> filtered_frame(table, gender_filter, paperless_filter, phone_filter,
                            dependents_filter, tenure_min, tenure_max),
     df |-> filtered_frame(table, gender_filter, paperless_filter, phone_filter,
                           dependents_filter, tenure_min, tenure_max).rows]

filter_data(table, gender_filter, paperless_filter, phone_filter, dependents_filter, tenure_min, tenure_max) ==
    [ret |-> filtered_frame(table, gender_filter, paperless_filter, phone_filter,
                            dependents_filter, tenure_min, tenure_max),
     df |-> table]

(***************************************************************************)
(* The rate-by-category charts (lines 49-183).                             *)
(***************************************************************************)
\* The values of a grouping column in the order groupby (sort=True) yields
\* its keys: ascending string order.
KeyOrder(col) ==
    CASE col = "InternetService" -> <<"DSL", "Fiber optic", "No">>
      [] col = "Contract" -> <<"Month-to-month", "One year", "Two year">>
      [] col = "PaymentMethod" ->
            <<"Bank transfer (automatic)", "Credit card (automatic)",
              "Electronic check", "Mailed check">>

RECURSIVE FirstSeen(_, _)
FirstSeen(values, seen) ==
    IF values = <<>> THEN <<>>
    ELSE IF Head(values) \in seen THEN FirstSeen(Tail(values), seen)
    ELSE <<Head(values)>> \o FirstSeen(Tail(values), seen \cup {Head(values)})

\* Fault: the groups reindexed against the whole category domain, a
\* category without records shown with rate 0.
groupby_churn_zero_filled(rows, col) ==
    LET keys == KeyOrder(col)
        Grp(k) == SelectSeq(rows, LAMBDA r : r[col] = k)
    IN  [i \in 1..Len(keys) |->
            LET g == Grp(keys[i])
                churners == SumSeq(Column(g, "ChurnBinary"))
            IN  [key |-> keys[i], Churners |-> churners, Total |-> Len(g),
                 ChurnRate |-> IF Len(g) = 0 THEN Frac(0, 1)
                               ELSE Frac(churners * 100, Len(g))]]

\* Fault: groupby(col, sort=False), the keys in the order they first occur.
groupby_churn_unsorted(rows, col) ==
    LET keys == FirstSeen(Column(rows, col), {})
        Grp(k) == SelectSeq(rows, LAMBDA r : r[col] = k)
    IN  [i \in 1..Len(keys) |->
            LET g == Grp(keys[i])
                churners == SumSeq(Column(g, "ChurnBinary"))
            IN  [key |-> keys[i], Churners |-> churners, Total |-> Len(g),
                 ChurnRate |-> Frac(churners * 100, Len(g))]]

\* df.groupby(col).agg({'ChurnBinary': ['sum', 'count']}).reset_index() with
\* the ChurnRate column: one row per key that occurs, in key order.
groupby_churn(rows, col) ==
    LET keys == SelectSeq(KeyOrder(col),
                          LAMBDA k : \E i \in DOMAIN rows : rows[i][col] = k)
        Grp(k) == SelectSeq(rows, LAMBDA r : r[col] = k)
    IN  [i \in 1..Len(keys) |->
            LET g == Grp(keys[i])
                churners == SumSeq(Column(g, "ChurnBinary"))
            IN  [key |-> keys[i], Churners |-> churners, Total |-> Len(g),
                 ChurnRate |-> Frac(churners * 100, Len(g))]]

\* Fault: the groups sorted by ascending rate.
sort_values_ascending(groups, ties) ==
    LET Before(i, j) ==
            \/ FracLess(groups[i].ChurnRate, groups[j].ChurnRate)
            \/ /\ groups[i].ChurnRate = groups[j].ChurnRate
               /\ IF ties = "keep" THEN i < j ELSE i > j
        order == SortSeq([i \in 1..Len(groups) |-> i], Before)
    IN  [i \in 1..Len(groups) |-> groups[order[i]]]

\* sort_values('ChurnRate', ascending=False): descending rate.  The default
\* sort is not stable: `ties` is this build's order of equal rates, "keep"
\* (as they stood) or "reverse".
sort_values(groups, ties) ==
    LET Before(i, j) ==
            \/ FracLess(groups[j].ChurnRate, groups[i].ChurnRate)
            \/ /\ groups[i].ChurnRate = groups[j].ChurnRate
               /\ IF ties = "keep" THEN i < j ELSE i > j
        order == SortSeq([i \in 1..Len(groups) |-> i], Before)
    IN  [i \in 1..Len(groups) |-> groups[order[i]]]

RECURSIVE MaxRate(_)
MaxRate(groups) ==
    IF Len(groups) = 1 THEN groups[1].ChurnRate
    ELSE LET m == MaxRate(Tail(groups))
         IN  IF FracLess(m, groups[1].ChurnRate) THEN groups[1].ChurnRate ELSE m

\* go.Figure(data=[go.Bar(...)]) and its layout, lines 63-87.
rate_figure(groups, x, xaxis_title) ==
    [data |-> << [type |-> "bar", x |-> [i \in 1..Len(groups) |-> x[groups[i].key]],
                  y |-> [i \in 1..Len(groups) |-> groups[i].ChurnRate],
                  text |-> [i \in 1..Len(groups) |->
                              FormatFixed(groups[i].ChurnRate, 2) \o <<"%">>]] >>,
     layout |-> [xaxis_title |-> xaxis_title,
                 yaxis_range |-> <<Frac(0, 1), FracTimes(MaxRate(groups), 6, 5)>>]]

\* x is the column the bars are labelled with, as a function of the key.
Same(col) == [k \in { KeyOrder(col)[i] : i \in DOMAIN KeyOrder(col) } |-> k]

create_churn_by_internet_chart(rows, ties) ==
    rate_figure(sort_values(groupby_churn(rows, "InternetService"), ties),
                Same("InternetService"), "Internet Service")

create_churn_by_contract_chart(rows, ties) ==
    rate_figure(sort_values(groupby_churn(rows, "Contract"), ties),
                Same("Contract"), "Contract Type")

\* payment_churn['PaymentMethod'].map(name_mapping), lines 142-148.
name_mapping ==
    [method \in { KeyOrder("PaymentMethod")[i] : i \in DOMAIN KeyOrder("PaymentMethod") } |->
        CASE method = "Electronic check" -> "Electronic"
          [] method = "Mailed check" -> "Mailed"
          [] method = "Bank transfer (automatic)" -> "Bank Transfer"
          [] method = "Credit card (automatic)" -> "Credit Card"]

create_churn_by_payment_method_chart(rows, ties) ==
    rate_figure(sort_values(groupby_churn(rows, "PaymentMethod"), ties),
                name_mapping, "Payment Method")

(***************************************************************************)
(* create_tenure_histogram (lines 185-239).                                *)
(***************************************************************************)
HistogramBins == <<0, 15, 30, 45, 60, 100>>
HistogramLabels == <<"1-15", "15-30", "30-45", "45-60", ">60">>

HistogramBinOf(r) == cut(r.tenure, HistogramBins, HistogramLabels)

\* frame[frame.ChurnBinary == c].groupby('TenureBin', observed=True).size()
\*     .reindex(labels, fill_value=0).values
bin_sizes(rows, c, labels) ==
    [i \in 1..Len(labels) |->
        Len(SelectSeq(rows, LAMBDA r : r.ChurnBinary = c /\ r.TenureBin = labels[i]))]

create_tenure_histogram(frame, table) ==
    LET df_copy == setitem(copy(frame), "TenureBin", [i \in DOMAIN frame.rows |-> HistogramBinOf(frame.rows[i])], table)
        churned == bin_sizes(df_copy.ret.rows, 1, HistogramLabels)
        stayed == bin_sizes(df_copy.ret.rows, 0, HistogramLabels)
    IN  [ret |-> [data |-> << [type |-> "bar", x |-> HistogramLabels,
                               y |-> churned, name |-> "Churned"],
                              [type |-> "bar", x |-> HistogramLabels,
                               y |-> stayed, name |-> "Stayed"] >>,
                  layout |-> [xaxis_title |-> "Tenure (months)", barmode |-> "group"]],
         df |-> df_copy.df]

(***************************************************************************)
(* The lifetime-value charts (lines 241-379).                              *)
(***************************************************************************)
LtvBins == <<0, 12, 24, 36, 48, 60, 72>>
LtvLabels == <<"12", "24", "36", "48", "60", "72">>

LtvBinOf(r) == cut(r.tenure, LtvBins, LtvLabels)

\* Fault: the cells that hold 0 left out of the mean, as pandas leaves out
\* the missing values that fillna(0) was to replace.
ltv_trace_skip_zero(rows, col, value) ==
    LET Cell(b) == SelectSeq(rows, LAMBDA r : r.TenureBin = b /\ r[col] = value
                                               /\ r.TotalCharges # 0)
        bins == SelectSeq(LtvLabels, LAMBDA b : Cell(b) # <<>>)
    IN  [type |-> "scatter", mode |-> "lines+markers", name |-> value, x |-> bins,
         y |-> [i \in 1..Len(bins) |->
                  Frac(SumSeq(Column(Cell(bins[i]), "TotalCharges")),
                       100 * Len(Cell(bins[i])))]]

\* groupby(['TenureBin', col], observed=True)['TotalCharges'].mean() cut down
\* to one value of col: the bins that hold a row of it, in bin order, and
\* the mean (in dollars) of each.
ltv_trace(rows, col, value) ==
    LET Cell(b) == SelectSeq(rows, LAMBDA r : r.TenureBin = b /\ r[col] = value)
        bins == SelectSeq(LtvLabels, LAMBDA b : Cell(b) # <<>>)
    IN  [type |-> "scatter", mode |-> "lines+markers", name |-> value, x |-> bins,
         y |-> [i \in 1..Len(bins) |->
                  Frac(SumSeq(Column(Cell(bins[i]), "TotalCharges")),
                       100 * Len(Cell(bins[i])))]]

\* Fault: a series only for the category values that have a record.
ltv_figure_occurring(rows, col, values) ==
    [data |-> [i \in 1..Len(SelectSeq(values, LAMBDA v : \E n \in DOMAIN rows : rows[n][col] = v)) |->
                 ltv_trace(rows, col, SelectSeq(values, LAMBDA v : \E n \in DOMAIN rows : rows[n][col] = v)[i])],
     layout |-> [xaxis_title |-> "Tenure (months)",
                 yaxis_range |-> <<Frac(0, 1), Frac(8000, 1)>>]]

\* fig = go.Figure(); one go.Scatter per value, in the order of the loop
\* (lines 262-271, 332-341); update_layout (lines 273-307).
ltv_figure(rows, col, values) ==
    [data |-> [i \in 1..Len(values) |-> ltv_trace(rows, col, values[i])],
     layout |-> [xaxis_title |-> "Tenure (months)",
                 yaxis_range |-> <<Frac(0, 1), Frac(8000, 1)>>]]

create_ltv_by_internet_service_chart(frame, table) ==
    LET df_copy == setitem(copy(frame), "TenureBin", [i \in DOMAIN frame.rows |-> LtvBinOf(frame.rows[i])], table)
    IN  [ret |-> ltv_figure(df_copy.ret.rows, "InternetService",
                            <<"Fiber optic", "DSL", "No">>),
         df |-> df_copy.df]

create_ltv_by_contract_chart(frame, table) ==
    LET df_copy == setitem(copy(frame), "TenureBin", [i \in DOMAIN frame.rows |-> LtvBinOf(frame.rows[i])], table)
    IN  [ret |-> ltv_figure(df_copy.ret.rows, "Contract",
                            <<"Month-to-month", "One year", "Two year">>),
         df |-> df_copy.df]

(***************************************************************************)
(* update_dashboard (lines 922-948) and reset_filters (lines 960-962).     *)
(***************************************************************************)
\* go.Figure()
EmptyFigure == [data |-> <<>>, layout |-> [xaxis_title |-> NaN]]

\* The frame as it is now: its rows are those of the module-level table
\* when the frame is that object.
deref(frame, table) ==
    [rows |-> IF frame.ref = "df" THEN table ELSE frame.rows, ref |-> frame.ref]

\* Fault: the rate taken over the records that stayed.
kpis_stayed(rows) ==
    [total_customers |-> Grouped(Len(rows)),
     churn_rate |->
        IF Len(rows) > 0
        THEN FormatFixed(Frac((Len(rows) - SumSeq(Column(rows, "ChurnBinary"))) * 100,
                              Len(rows)), 2)
             \o <<"%">>
        ELSE <<"0", "%">>,
     monthly_revenue |->
        IF Len(rows) > 0
        THEN <<"$">> \o FormatGrouped0(Frac(SumSeq(Column(rows, "MonthlyCharges")), 100))
        ELSE <<"$", "0">>,
     avg_tenure |->
        IF Len(rows) > 0
        THEN FormatFixed(Frac(SumSeq(Column(rows, "tenure")), Len(rows)), 1)
        ELSE <<"0">>]

\* Lines 927-936.
kpis(rows) ==
    [total_customers |-> Grouped(Len(rows)),
     churn_rate |->
        IF Len(rows) > 0
        THEN FormatFixed(Frac(SumSeq(Column(rows, "ChurnBinary")) * 100, Len(rows)), 2)
             \o <<"%">>
        ELSE <<"0", "%">>,
     monthly_revenue |->
        IF Len(rows) > 0
        THEN <<"$">> \o FormatGrouped0(Frac(SumSeq(Column(rows, "MonthlyCharges")), 100))
        ELSE <<"$", "0">>,
     avg_tenure |->
        IF Len(rows) > 0
        THEN FormatFixed(Frac(SumSeq(Column(rows, "tenure")), Len(rows)), 1)
        ELSE <<"0">>]

\* Lines 939-941.
rate_charts(rows, ties) ==
    [internet_chart |->
        IF Len(rows) > 0 THEN create_churn_by_internet_chart(rows, ties) ELSE EmptyFigure,
     contract_chart |->
        IF Len(rows) > 0 THEN create_churn_by_contract_chart(rows, ties) ELSE EmptyFigure,
     payment_chart |->
        IF Len(rows) > 0 THEN create_churn_by_payment_method_chart(rows, ties)
        ELSE EmptyFigure]

\* Fault: the histogram built without the guard on the row count.
tenure_chart_unguarded(frame, table) == create_tenure_histogram(frame, table)

\* Line 942.
tenure_chart(frame, table) ==
    IF Len(frame.rows) > 0 THEN create_tenure_histogram(frame, table)
    ELSE [ret |-> EmptyFigure, df |-> table]

\* Line 943.
ltv_internet_chart(frame, table) ==
    IF Len(frame.rows) > 0 THEN create_ltv_by_internet_service_chart(frame, table)
    ELSE [ret |-> EmptyFigure, df |-> table]

\* Line 944.
ltv_contract_chart(frame, table) ==
    IF Len(frame.rows) > 0 THEN create_ltv_by_contract_chart(frame, table)
    ELSE [ret |-> EmptyFigure, df |-> table]

\* The chart builders a call runs for a filtered table of `len` rows.
builders_run(len) ==
    IF len > 0
    THEN {"create_churn_by_internet_chart", "create_churn_by_contract_chart",
          "create_churn_by_payment_method_chart", "create_tenure_histogram",
          "create_ltv_by_internet_service_chart", "create_ltv_by_contract_chart"}
    ELSE {}

\* Lines 946-948: the returned tuple, with the module-level table as the
\* last chart builder left it.
returned(rows, ties, tenure, ltv_internet, ltv_contract) ==
    [ret |-> kpis(rows) @@ rate_charts(rows, ties)
             @@ [tenure_chart |-> tenure.ret,
                 ltv_internet_chart |-> ltv_internet.ret,
                 ltv_contract_chart |-> ltv_contract.ret],
     df |-> ltv_contract.df,
     filtered_df |-> rows,
     called |-> builders_run(Len(rows))]

after_ltv_internet(frame, rows, ties, tenure, ltv_internet) ==
    returned(rows, ties, tenure, ltv_internet,
             ltv_contract_chart(deref(frame, ltv_internet.df), ltv_internet.df))

after_tenure(frame, rows, ties, tenure) ==
    after_ltv_internet(frame, rows, ties, tenure,
                       ltv_internet_chart(deref(frame, tenure.df), tenure.df))

after_filter(fd, ties) ==
    after_tenure(fd.ret, deref(fd.ret, fd.df).rows, ties,
                 tenure_chart(deref(fd.ret, fd.df), fd.df))

update_dashboard(table, gender_filter, paperless_filter, phone_filter, dependents_filter, tenure_min, tenure_max, ties) ==
    after_filter(filter_data(table, gender_filter, paperless_filter, phone_filter,
                             dependents_filter, tenure_min, tenure_max),
                 ties)

\* Fault: the two tenure inputs cleared instead of set to 0 and 72.
reset_filters_cleared ==
    [gender_filter |-> "All", paperless_filter |-> "All", phone_filter |-> "All",
     dependents_filter |-> "All", tenure_min |-> None, tenure_max |-> None]

\* return 'All', 'All', 'All', 'All', 0, 72
reset_filters ==
    [gender_filter |-> "All", paperless_filter |-> "All", phone_filter |-> "All",
     dependents_filter |-> "All", tenure_min |-> 0, tenure_max |-> 72]

(***************************************************************************)
(* The page: the initial values of the six filter components (lines        *)
(* 414-512) and the values a request can carry for each.                   *)
(***************************************************************************)
InitialValues ==
    [gender_filter |-> "All", paperless_filter |-> "All", phone_filter |-> "All",
     dependents_filter |-> "All", tenure_min |-> 0, tenure_max |-> 72]

Inputs(component) ==
    CASE component = "gender_filter" -> {"All", "Male", "Female", "Other"}
      [] component \in {"paperless_filter", "phone_filter", "dependents_filter"} ->
            {"All", "Yes", "No"}
      [] component = "tenure_min" -> {None, 0, 10}
      [] component = "tenure_max" -> {None, 15, 72}

Active(values) ==
    Cardinality({ c \in DOMAIN values : values[c] # InitialValues[c] })

NoResponse ==
    [total_customers |-> <<>>, churn_rate |-> <<>>, monthly_revenue |-> <<>>,
     avg_tenure |-> <<>>, internet_chart |-> EmptyFigure,
     contract_chart |-> EmptyFigure, payment_chart |-> EmptyFigure,
     tenure_chart |-> EmptyFigure, ltv_internet_chart |-> EmptyFigure,
     ltv_contract_chart |-> EmptyFigure]

(***************************************************************************)
(* The state machine.                                                      *)
(***************************************************************************)
Init ==
    /\ csv \in Csvs
    /\ df = <<>>
    /\ pc = "import"
    /\ argsort \in {"keep", "reverse"}
    /\ sel = InitialValues
    /\ fresh = FALSE
    /\ out = NoResponse
    /\ filtered_df = <<>>
    /\ called = {}
    /\ first_out = NoResponse
    /\ others = FALSE

\* Line 43, run once when the module is imported.
Load ==
    /\ pc = "import"
    /\ df' = load_and_prepare_data(csv)
    /\ pc' = "serving"
    /\ UNCHANGED <<csv, argsort, sel, fresh, out, filtered_df, called, first_out, others>>

\* What a call of update_dashboard leaves behind: r is what it returned.
Answer(r, values) ==
    /\ out' = r.ret
    /\ df' = r.df
    /\ filtered_df' = r.filtered_df
    /\ called' = r.called
    /\ fresh' = TRUE
    /\ first_out' = IF first_out = NoResponse THEN r.ret ELSE first_out
    /\ others' = (others \/ values # InitialValues)

\* Dash runs update_dashboard with the six current values.
Respond(values) ==
    Answer(update_dashboard(df, values.gender_filter, values.paperless_filter,
                            values.phone_filter, values.dependents_filter,
                            values.tenure_min, values.tenure_max, argsort),
           values)

\* The callback fires for the values the page holds: when the page is
\* first drawn and after reset_filters has written its outputs.
Refresh ==
    /\ pc = "serving"
    /\ ~fresh
    /\ Respond(sel)
    /\ UNCHANGED <<csv, pc, argsort, sel>>

\* The user changes one filter component and the callback fires.
ChangeFilter ==
    /\ pc = "serving"
    /\ fresh
    /\ \E component \in DOMAIN sel :
         \E value \in Inputs(component) :
            /\ value # sel[component]
            /\ sel' = [sel EXCEPT ![component] = value]
            /\ Active(sel') <= MaxActive
            /\ Respond(sel')
    /\ UNCHANGED <<csv, pc, argsort>>

\* The user clicks Reset: reset_filters writes the six component values.
ResetFilters ==
    /\ pc = "serving"
    /\ fresh
    /\ sel' = reset_filters
    /\ fresh' = FALSE
    /\ UNCHANGED <<csv, df, pc, argsort, out, filtered_df, called, first_out, others>>

Next == Load \/ Refresh \/ ChangeFilter \/ ResetFilters

Spec == Init /\ [][Next]_vars

(***************************************************************************)
(* Properties.  Answered: a request has been answered for the values the   *)
(* page holds.                                                             *)
(***************************************************************************)
Answered == pc = "serving" /\ fresh

\* A row passes the four categorical filters of the selection.
PassesCategories(r) ==
    /\ sel.gender_filter = "All" \/ r.gender = sel.gender_filter
    /\ sel.paperless_filter = "All" \/ r.PaperlessBilling = sel.paperless_filter
    /\ sel.phone_filter = "All" \/ r.PhoneService = sel.phone_filter
    /\ sel.dependents_filter = "All" \/ r.Dependents = sel.dependents_filter

PassesBoth(r) ==
    PassesCategories(r) /\ sel.tenure_min <= r.tenure /\ r.tenure <= sel.tenure_max

\* C1: filter_data returns exactly the records that equal the chosen value
\* in every dimension that is not 'All' and, when both tenure bounds are
\* given, whose tenure lies in [tenure_min, tenure_max]; the filtered count
\* never exceeds the loaded count.
C1_FilterIsConjunction ==
    Answered =>
        /\ Len(filtered_df) <= Len(df)
        /\ (sel.tenure_min # None /\ sel.tenure_max # None)
              => filtered_df = SelectSeq(df, PassesBoth)

\* Two categorical filters and the tenure range are active and keep some
\* rows but not all.
C1_Witness ==
    /\ Answered
    /\ sel.gender_filter # "All" /\ sel.dependents_filter # "All"
    /\ sel.tenure_min # None /\ sel.tenure_max # None
    /\ 0 < Len(filtered_df) /\ Len(filtered_df) < Len(df)

PassesOpen(r) ==
    /\ PassesCategories(r)
    /\ sel.tenure_min # None => sel.tenure_min <= r.tenure
    /\ sel.tenure_max # None => r.tenure <= sel.tenure_max

\* C2: when exactly one tenure bound is None the range is open on that side
\* only: filter_data keeps exactly the records that pass the categorical
\* filters and the bound that is given.
C2_OneBoundOpen ==
    (Answered /\ (sel.tenure_min = None) # (sel.tenure_max = None))
        => filtered_df = SelectSeq(df, PassesOpen)

\* C3: for a selection that matches no record update_dashboard returns
\* count "0", churn rate "0%", revenue "$0", average tenure "0" and six
\* empty figures, and runs no chart builder.
C3_EmptyResult ==
    (Answered /\ Len(filtered_df) = 0) =>
        /\ out.total_customers = <<"0">>
        /\ out.churn_rate = <<"0", "%">>
        /\ out.monthly_revenue = <<"$", "0">>
        /\ out.avg_tenure = <<"0">>
        /\ \A chart \in {"internet_chart", "contract_chart", "payment_chart",
                         "tenure_chart", "ltv_internet_chart", "ltv_contract_chart"} :
              out[chart] = EmptyFigure /\ out[chart].data = <<>>
        /\ called = {}

\* The table holds rows and the selection matches none of them.
C3_Witness ==
    /\ Answered
    /\ Len(df) > 0 /\ Len(filtered_df) = 0
    /\ out.total_customers = <<"0">> /\ out.tenure_chart.data = <<>>

\* The number a KPI string shows, in hundredths: the string without its
\* unit and grouping characters, read as a decimal number.
Shown(s) == to_numeric(SelectSeq(s, LAMBDA c : c \notin {"%", "$", ","})).val

Churned(rows) == Len(SelectSeq(rows, LAMBDA r : r.ChurnBinary = 1))

\* C4, as claimed: the churn rate KPI is in [0, 100] and equals 0 exactly
\* when the filtered count is 0.
C4_ZeroIffEmpty ==
    Answered =>
        /\ 0 <= Shown(out.churn_rate) /\ Shown(out.churn_rate) <= 10000
        /\ Shown(out.churn_rate) = 0 <=> Len(filtered_df) = 0

\* C4, amended: the churn rate KPI is in [0, 100]; it is 0 when the filtered
\* count is 0 and also when no filtered record has churned; the literal
\* "0%" is returned exactly when the filtered count is 0.
C4_ZeroWhenNoChurn ==
    Answered =>
        /\ 0 <= Shown(out.churn_rate) /\ Shown(out.churn_rate) <= 10000
        /\ Len(filtered_df) = 0 => Shown(out.churn_rate) = 0
        /\ Churned(filtered_df) = 0 => Shown(out.churn_rate) = 0
        /\ out.churn_rate = <<"0", "%">> <=> Len(filtered_df) = 0

\* A non-empty filtered set without a churned record: the rate is "0.00%".
C4_Witness ==
    /\ Answered
    /\ Len(filtered_df) > 0 /\ Churned(filtered_df) = 0
    /\ out.churn_rate = <<"0", ".", "0", "0", "%">>

\* The data model of the records: tenure a natural number, the churn
\* indicator 0 or 1.
DataModel(rows) ==
    \A i \in DOMAIN rows : rows[i].tenure \in Nat /\ rows[i].ChurnBinary \in {0, 1}

HistogramTotal(fig) == SumSeq(fig.data[1].y) + SumSeq(fig.data[2].y)

\* C5: the bucket counts of the tenure histogram, Churned plus Stayed, sum
\* to the number of filtered records, for every record set that obeys the
\* data model.
C5_HistogramSumsToCount ==
    (Answered /\ Len(filtered_df) > 0 /\ DataModel(df)) =>
        /\ out.tenure_chart.data[1].name = "Churned"
        /\ out.tenure_chart.data[2].name = "Stayed"
        /\ HistogramTotal(out.tenure_chart) = Len(filtered_df)

Position(v, order) == CHOOSE i \in DOMAIN order : order[i] = v

\* The bars x follow the fixed order `order`.
InDomainOrder(x, order) ==
    \A i, j \in DOMAIN x : i < j => Position(x[i], order) < Position(x[j], order)

\* The bars y never rise from left to right.
Descending(y) == \A i, j \in DOMAIN y : i < j => ~FracLess(y[i], y[j])

\* C6, as claimed: the contract chart and the internet-service chart keep
\* their fixed domain order and skip the rate sort; the payment-method chart
\* is ordered by descending rate.  The claim names no order for the
\* internet-service tiers: the declared one (line 262) and the alphabetical
\* one are both let through.
C6_DomainOrderWins ==
    (Answered /\ Len(filtered_df) > 0) =>
        /\ InDomainOrder(out.contract_chart.data[1].x,
                         <<"Month-to-month", "One year", "Two year">>)
        /\ \/ InDomainOrder(out.internet_chart.data[1].x, <<"Fiber optic", "DSL", "No">>)
           \/ InDomainOrder(out.internet_chart.data[1].x, <<"DSL", "Fiber optic", "No">>)
        /\ Descending(out.payment_chart.data[1].y)

\* C6, amended: all three rate charts, contract and internet service
\* included, order their groups by descending churn rate.
C6_AllByDescendingRate ==
    (Answered /\ Len(filtered_df) > 0) =>
        /\ Descending(out.contract_chart.data[1].y)
        /\ Descending(out.internet_chart.data[1].y)
        /\ Descending(out.payment_chart.data[1].y)

\* The contract chart shows One year before Month-to-month, because its
\* rate is the higher one.
C6_Witness ==
    /\ Answered
    /\ Len(filtered_df) > 0
    /\ out.contract_chart.data[1].x = <<"One year", "Month-to-month">>
    /\ FracLess(out.contract_chart.data[1].y[2], out.contract_chart.data[1].y[1])

\* C7: the KPI values and charts update_dashboard returns depend only on
\* the selection and the loaded record set, whatever calls came before: they
\* are those computed from the table as loaded, and a request with the
\* initial values gets again what the first request got.
C7_Stateless ==
    Answered =>
        /\ out = update_dashboard(load_and_prepare_data(csv), sel.gender_filter,
                                  sel.paperless_filter, sel.phone_filter,
                                  sel.dependents_filter, sel.tenure_min,
                                  sel.tenure_max, argsort).ret
        /\ sel = InitialValues => out = first_out

\* The initial values are answered again after requests with other values.
C7_Witness ==
    /\ Answered
    /\ others /\ sel = InitialValues
    /\ Len(df) > 0 /\ Len(filtered_df) > 0
    /\ out = first_out

\* C8: the module-level table is never changed after the load: it has the
\* rows, the columns (no TenureBin) and the values it had right after
\* loading.
C8_TableNeverChanges ==
    pc = "serving" =>
        /\ df = load_and_prepare_data(csv)
        /\ \A i \in DOMAIN df : "TenureBin" \notin DOMAIN df[i]

\* A request that filters nothing has been answered with charts: the
\* binning worked on every row of the table.
C8_Witness ==
    /\ Answered
    /\ others
    /\ \A c \in {"gender_filter", "paperless_filter", "phone_filter", "dependents_filter"} :
          sel[c] = "All"
    /\ sel.tenure_max = None
    /\ Len(filtered_df) = Len(df)
    /\ {"create_tenure_histogram", "create_ltv_by_contract_chart"} \subseteq called
    /\ df = load_and_prepare_data(csv)

Permuted(rows, p) == [i \in DOMAIN rows |-> rows[p[i]]]

\* C9: for any permutation of the rows each rate chart is the same: the
\* same (category, rate) pairs in the same order, tied categories included.
C9_RowOrderInvariant ==
    (Answered /\ Len(filtered_df) > 0) =>
        \A p \in Permutations(DOMAIN filtered_df) :
            /\ create_churn_by_internet_chart(Permuted(filtered_df, p), argsort)
                  = out.internet_chart
            /\ create_churn_by_contract_chart(Permuted(filtered_df, p), argsort)
                  = out.contract_chart
            /\ create_churn_by_payment_method_chart(Permuted(filtered_df, p), argsort)
                  = out.payment_chart

\* Two internet-service tiers and two payment methods with the same rate.
C9_Witness ==
    /\ Answered
    /\ Len(out.internet_chart.data) = 1 /\ Len(out.payment_chart.data) = 1
    /\ Len(out.internet_chart.data[1].y) = 2
    /\ out.internet_chart.data[1].y[1] = out.internet_chart.data[1].y[2]
    /\ Len(out.payment_chart.data[1].y) >= 2
    /\ out.payment_chart.data[1].y[1] = out.payment_chart.data[1].y[2]

Abs(i) == IF i < 0 THEN -i ELSE i

\* C10: on the rows (tenure 1, $20, churned), (tenure 10, $50, stayed),
\* (tenure 70, $30, stayed) with the initial selection the KPIs are 3,
\* 33.33%, $100 and 27.0; in general the rate is churned / count x 100 shown
\* with 2 decimals, the revenue the sum of the monthly charges in whole
\* dollars, the average tenure the mean shown with 1 decimal.
C10_Kpis ==
    /\ (Answered /\ csv = Pick({1, 2, 3}, 1) /\ sel = InitialValues) =>
          /\ out.total_customers = <<"3">>
          /\ out.churn_rate = <<"3", "3", ".", "3", "3", "%">>
          /\ out.monthly_revenue = <<"$", "1", "0", "0">>
          /\ out.avg_tenure = <<"2", "7", ".", "0">>
    /\ (Answered /\ Len(filtered_df) > 0) =>
          LET n == Len(filtered_df)
              rate == out.churn_rate
              revenue == out.monthly_revenue
              tenure == out.avg_tenure
          IN  /\ Shown(out.total_customers) = 100 * n
              /\ Len(rate) >= 5 /\ rate[Len(rate)] = "%" /\ rate[Len(rate) - 3] = "."
              /\ 2 * Abs(Shown(rate) * n - 10000 * Churned(filtered_df)) <= n
              /\ revenue[1] = "$" /\ \A i \in DOMAIN revenue : revenue[i] # "."
              /\ 2 * Abs(Shown(revenue) - SumSeq(Column(filtered_df, "MonthlyCharges"))) <= 100
              /\ Len(tenure) >= 3 /\ tenure[Len(tenure) - 1] = "."
              /\ Abs(Shown(tenure) * n - 100 * SumSeq(Column(filtered_df, "tenure"))) <= 5 * n

\* The scenario has been answered.
C10_Witness ==
    /\ Answered
    /\ csv = Pick({1, 2, 3}, 1) /\ sel = InitialValues
    /\ Column(df, "tenure") = <<1, 10, 70>>
    /\ Column(df, "MonthlyCharges") = <<2000, 5000, 3000>>
    /\ Column(df, "Churn") = <<"Yes", "No", "No">>
    /\ out.churn_rate = <<"3", "3", ".", "3", "3", "%">>

\* The four categorical dimensions a selection has (lines 915-918).
Categorical == {"gender_filter", "paperless_filter", "phone_filter", "dependents_filter"}

\* The records of the loaded table whose internet service is DSL.
DslRows == SelectSeq(df, LAMBDA r : r.InternetService = "DSL")

\* What update_dashboard returns for the initial values with one component
\* changed.
With(component, value) ==
    update_dashboard(df, [InitialValues EXCEPT ![component] = value].gender_filter,
                     [InitialValues EXCEPT ![component] = value].paperless_filter,
                     [InitialValues EXCEPT ![component] = value].phone_filter,
                     [InitialValues EXCEPT ![component] = value].dependents_filter,
                     0, 72, argsort)

EmptyResult ==
    [total_customers |-> <<"0">>, churn_rate |-> <<"0", "%">>,
     monthly_revenue |-> <<"$", "0">>, avg_tenure |-> <<"0">>,
     internet_chart |-> EmptyFigure, contract_chart |-> EmptyFigure,
     payment_chart |-> EmptyFigure, tenure_chart |-> EmptyFigure,
     ltv_internet_chart |-> EmptyFigure, ltv_contract_chart |-> EmptyFigure]

\* C12: a filter value outside the declared domain of its dimension is
\* not validated and does not stop the engine: filter_data returns zero
\* records and update_dashboard answers with the default KPI strings and
\* empty figures.
C12_UnmatchedValue ==
    /\ (Answered /\ sel.gender_filter \notin {"All", "Male", "Female"}) =>
          /\ filtered_df = <<>>
          /\ out = EmptyResult
    /\ (Answered /\ sel = InitialValues) =>
          \A component \in Categorical :
              /\ With(component, "Other").filtered_df = <<>>
              /\ With(component, "Other").ret = EmptyResult
              /\ With(component, "Other").called = {}

\* A request with a gender that no record has, on a table with rows.
C12_Witness ==
    /\ Answered
    /\ sel.gender_filter = "Other"
    /\ Len(df) > 0
    /\ filtered_df = <<>>
    /\ out.total_customers = <<"0">> /\ out.internet_chart = EmptyFigure

\* C13: after loading every record has a churn indicator in {0, 1}, and it
\* is 1 exactly when the raw churn field is the string "Yes"; any other raw
\* value, "yes" and " Yes" included, gives 0.
C13_ChurnIndicator ==
    pc = "serving" =>
        /\ Len(df) = Len(csv)
        /\ \A i \in DOMAIN df :
              /\ df[i].Churn = csv[i].Churn
              /\ df[i].ChurnBinary \in {0, 1}
              /\ df[i].ChurnBinary = 1 <=> csv[i].Churn = "Yes"
              /\ csv[i].Churn \in {"yes", " Yes", "No"} => df[i].ChurnBinary = 0

\* A table with the raw values " Yes", "Yes" and "yes" has been loaded.
C13_Witness ==
    /\ pc = "serving"
    /\ Column(csv, "Churn") = <<" Yes", "Yes", "yes">>
    /\ Column(df, "ChurnBinary") = <<0, 1, 0>>

\* The raw cell is blank: empty or white space only.
Blank(cell) == \A i \in DOMAIN cell : cell[i] = " "

\* The filtered records of one category value whose tenure lies in the
\* 12-month bucket (lo, hi], the lowest bucket taking tenure 0 as well.
InCell(col, value, lo, hi) ==
    SelectSeq(filtered_df,
              LAMBDA r : /\ r[col] = value
                         /\ \/ lo < r.tenure /\ r.tenure <= hi
                            \/ lo = 0 /\ r.tenure = 0)

\* Every point of every series of a lifetime-value chart is the plain mean,
\* in dollars, of total-charges over all the records of its cell.
MeansOverAllRecords(fig, col) ==
    \A s \in DOMAIN fig.data :
        \A k \in DOMAIN fig.data[s].x :
            LET hi == 12 * Position(fig.data[s].x[k], LtvLabels)
                cell == InCell(col, fig.data[s].name, hi - 12, hi)
            IN  /\ cell # <<>>
                /\ fig.data[s].y[k]
                      = Frac(SumSeq(Column(cell, "TotalCharges")), 100 * Len(cell))

\* C14: after loading total-charges is a number for every record: a blank
\* raw cell becomes exactly 0 and its row is kept, a parseable cell keeps
\* its value, and the 0 is averaged in the cells of the lifetime-value
\* charts like any other value.
C14_BlankTotalIsZero ==
    /\ pc = "serving" =>
          /\ Len(df) = Len(csv)
          /\ \A i \in DOMAIN df :
                /\ df[i].customerID = csv[i].customerID
                /\ df[i].TotalCharges \in Nat
                /\ Blank(csv[i].TotalCharges) => df[i].TotalCharges = 0
                /\ csv[i].TotalCharges = <<"2", "0">> => df[i].TotalCharges = 2000
                /\ csv[i].TotalCharges = <<"5", "0", "0">> => df[i].TotalCharges = 50000
                /\ csv[i].TotalCharges = <<"2", "1", "0", "0">> => df[i].TotalCharges = 210000
                /\ csv[i].TotalCharges = <<"2", "5", "5", "0", ".", "2", "5">>
                      => df[i].TotalCharges = 255025
    /\ (Answered /\ Len(filtered_df) > 0) =>
          /\ MeansOverAllRecords(out.ltv_internet_chart, "InternetService")
          /\ MeansOverAllRecords(out.ltv_contract_chart, "Contract")

\* A record with a blank cell shares its cell of both charts with a record
\* worth $2100: the mean plotted is $1050.
C14_Witness ==
    /\ Answered
    /\ \E i, j \in DOMAIN filtered_df :
          /\ filtered_df[i].customerID = "c3" /\ filtered_df[j].customerID = "c6"
          /\ csv[CHOOSE n \in DOMAIN csv : csv[n].customerID = "c6"].TotalCharges = <<>>
          /\ filtered_df[j].TotalCharges = 0
    /\ \E s \in DOMAIN out.ltv_internet_chart.data :
          /\ out.ltv_internet_chart.data[s].name = "DSL"
          /\ \E k \in DOMAIN out.ltv_internet_chart.data[s].x :
                /\ out.ltv_internet_chart.data[s].x[k] = "72"
                /\ out.ltv_internet_chart.data[s].y[k] = Frac(1050, 1)

\* The values of a column that occur in the filtered records.
Occurring(col) == { filtered_df[i][col] : i \in DOMAIN filtered_df }

\* The filtered records of one group.
Group(col, value) == SelectSeq(filtered_df, LAMBDA r : r[col] = value)

\* The chart has as many bars as values of col occur, and every such value
\* has a bar, labelled label[value], of height churned / size x 100.
OneBarPerGroup(fig, col, label) ==
    /\ Len(fig.data) = 1
    /\ Len(fig.data[1].x) = Cardinality(Occurring(col))
    /\ Len(fig.data[1].y) = Len(fig.data[1].x)
    /\ \A value \in Occurring(col) :
          /\ Len(Group(col, value)) >= 1
          /\ \E i \in DOMAIN fig.data[1].x :
                /\ fig.data[1].x[i] = label[value]
                /\ fig.data[1].y[i]
                      = Frac(100 * Churned(Group(col, value)), Len(Group(col, value)))

\* C15: for a non-empty filtered set each rate-by-category chart has
\* exactly one bar per category value that occurs in the filtered records,
\* none for a value without records, and the bar is churned count / group
\* size x 100 of a group of at least one record.
C15_OneBarPerOccurringValue ==
    (Answered /\ Len(filtered_df) > 0) =>
        /\ OneBarPerGroup(out.internet_chart, "InternetService", Same("InternetService"))
        /\ OneBarPerGroup(out.contract_chart, "Contract", Same("Contract"))
        /\ OneBarPerGroup(out.payment_chart, "PaymentMethod", name_mapping)

\* Two of the three internet-service tiers and two of the three contracts
\* occur among three filtered records: two bars each.
C15_Witness ==
    /\ Answered
    /\ Len(filtered_df) = 3
    /\ Occurring("InternetService") = {"DSL", "Fiber optic"}
    /\ Cardinality(Occurring("Contract")) = 2
    /\ Len(out.internet_chart.data[1].x) = 2
    /\ Len(out.contract_chart.data[1].x) = 2
    /\ Len(out.payment_chart.data[1].x) = 3

\* The filtered records with churn indicator c and tenure in (lo, hi], or
\* in [0, hi] for the first bucket.
InBucket(c, lo, hi) ==
    Len(SelectSeq(filtered_df,
                  LAMBDA r : /\ r.ChurnBinary = c
                             /\ \/ lo < r.tenure /\ r.tenure <= hi
                                \/ lo = 0 /\ r.tenure = 0))

\* The five bucket counts of the records with churn indicator c.
BucketCounts(c) ==
    << InBucket(c, 0, 15), InBucket(c, 15, 30), InBucket(c, 30, 45),
       InBucket(c, 45, 60), InBucket(c, 60, 100) >>

\* C16: for every non-empty filtered set the tenure histogram has exactly
\* two series, Churned then Stayed, each with five values in the bucket
\* order '1-15', '15-30', '30-45', '45-60', '>60' for the ranges [0,15],
\* (15,30], (30,45], (45,60], (60,100]; an empty bucket reports 0 and
\* tenure 0 is counted in the first bucket.  The bars are grouped.
C16_HistogramShape ==
    (Answered /\ Len(filtered_df) > 0) =>
        /\ Len(out.tenure_chart.data) = 2
        /\ out.tenure_chart.data[1].name = "Churned"
        /\ out.tenure_chart.data[2].name = "Stayed"
        /\ \A s \in {1, 2} :
              out.tenure_chart.data[s].x = <<"1-15", "15-30", "30-45", "45-60", ">60">>
        /\ out.tenure_chart.data[1].y = BucketCounts(1)
        /\ out.tenure_chart.data[2].y = BucketCounts(0)
        /\ out.tenure_chart.layout.barmode = "group"

\* A record of tenure 0 is counted in the first Stayed bucket, a churned
\* record in the first Churned bucket and a record in the last bucket; the
\* buckets in between report 0.
C16_Witness ==
    /\ Answered
    /\ \E i \in DOMAIN filtered_df :
          filtered_df[i].tenure = 0 /\ filtered_df[i].ChurnBinary = 0
    /\ out.tenure_chart.data[1].y = <<1, 0, 0, 0, 0>>
    /\ out.tenure_chart.data[2].y = <<1, 0, 0, 0, 1>>

\* The 12-month bucket labels, in order, in which the filtered records of
\* one category value have at least one record.
BucketsOf(col, value) ==
    SelectSeq(<<"12", "24", "36", "48", "60", "72">>,
              LAMBDA b : InCell(col, value, 12 * Position(b, LtvLabels) - 12,
                                12 * Position(b, LtvLabels)) # <<>>)

\* The chart has one line series per value of `order`, in that order, each
\* over exactly the buckets where the value has records, in bucket order,
\* with the mean of total-charges of each.
OneSeriesPerValue(fig, col, order) ==
    /\ Len(fig.data) = Len(order)
    /\ \A s \in DOMAIN order :
          /\ fig.data[s].name = order[s]
          /\ fig.data[s].type = "scatter"
          /\ fig.data[s].x = BucketsOf(col, order[s])
          /\ Len(fig.data[s].y) = Len(fig.data[s].x)
    /\ MeansOverAllRecords(fig, col)

\* C17: a lifetime-value chart has one line series per category value in
\* the declared order (Fiber optic, DSL, No; Month-to-month, One year, Two
\* year), also for a value without filtered records; a series holds the
\* mean of total-charges for exactly the 12-month buckets where its value
\* has a record, and its x values follow the bucket-label sequence '12',
\* '24', '36', '48', '60', '72'.
C17_LtvSeries ==
    (Answered /\ Len(filtered_df) > 0) =>
        /\ OneSeriesPerValue(out.ltv_internet_chart, "InternetService",
                             <<"Fiber optic", "DSL", "No">>)
        /\ OneSeriesPerValue(out.ltv_contract_chart, "Contract",
                             <<"Month-to-month", "One year", "Two year">>)

\* DSL has records in the first and the last bucket only, and no record has
\* internet service No: its series is there, without points.
C17_Witness ==
    /\ Answered
    /\ Len(filtered_df) > 0
    /\ "No" \notin Occurring("InternetService")
    /\ Len(out.ltv_internet_chart.data) = 3
    /\ out.ltv_internet_chart.data[2].name = "DSL"
    /\ out.ltv_internet_chart.data[2].x = <<"12", "72">>
    /\ out.ltv_internet_chart.data[2].y = <<Frac(20, 1), Frac(2100, 1)>>
    /\ out.ltv_internet_chart.data[3].name = "No"
    /\ out.ltv_internet_chart.data[3].x = <<>>

\* The default selection.
Default ==
    [gender_filter |-> "All", paperless_filter |-> "All", phone_filter |-> "All",
     dependents_filter |-> "All", tenure_min |-> 0, tenure_max |-> 72]

\* A step of reset_filters: the answer on the page stops being the answer
\* to the page's values.
ResetStep == pc = "serving" /\ fresh /\ ~fresh'

\* A step of the update_dashboard that follows a reset.
AnswerAfterReset == pc = "serving" /\ ~fresh /\ fresh' /\ first_out # NoResponse

\* C18: whatever the selection is, reset_filters sets it to the default
\* ('All', 'All', 'All', 'All', tenure 0 to 72), and the update_dashboard
\* that follows runs with the default selection and reports all the loaded
\* records when every loaded tenure lies in [0, 72].
C18_ResetShowsAll ==
    [][ /\ ResetStep => sel' = Default
        /\ AnswerAfterReset =>
              /\ sel' = Default
              /\ (\A i \in DOMAIN df : df[i].tenure \in 0..72) =>
                    /\ filtered_df' = load_and_prepare_data(csv)
                    /\ Shown(out'.total_customers) = 100 * Len(csv) ]_vars

\* Reset has been clicked on a page that showed part of a table whose
\* tenures all lie in [0, 72]: the selection is back to the default.
C18_Witness ==
    /\ pc = "serving" /\ ~fresh
    /\ others
    /\ Len(df) = 3 /\ \A i \in DOMAIN df : df[i].tenure \in 0..72
    /\ 0 < Len(filtered_df) /\ Len(filtered_df) < Len(df)
    /\ sel = Default

\* The y-axis of a rate chart runs from 0 to 1.2 times the highest bar and
\* ends above every bar.
AxisAboveBars(fig) ==
    /\ fig.layout.yaxis_range[1] = Frac(0, 1)
    /\ \E i \in DOMAIN fig.data[1].y :
          /\ \A j \in DOMAIN fig.data[1].y : ~FracLess(fig.data[1].y[i], fig.data[1].y[j])
          /\ fig.layout.yaxis_range[2] = FracTimes(fig.data[1].y[i], 12, 10)
    /\ \A i \in DOMAIN fig.data[1].y : FracLess(fig.data[1].y[i], fig.layout.yaxis_range[2])
    /\ FracLess(Frac(0, 1), fig.layout.yaxis_range[2])

\* C19: for every non-empty filtered set the y-axis range of each
\* rate-by-category chart is [0, 1.2 x the largest plotted rate] and its
\* upper bound is above every plotted rate and above 0, also when no
\* filtered record has churned.
C19_AxisNeverDegenerate ==
    (Answered /\ Len(filtered_df) > 0) =>
        /\ AxisAboveBars(out.internet_chart)
        /\ AxisAboveBars(out.contract_chart)
        /\ AxisAboveBars(out.payment_chart)

====
